---- MODULE Spec2Model ----
(***************************************************************************)
(* Model of mindmeld/models/taggers/crf.py: the FeatureMapper /            *)
(* FeatureBinner discretisation engine and CRFTagger.predict_proba.        *)
(*                                                                         *)
(* Python floats are modelled as fixed-point numbers: the float x is the   *)
(* integer x * Scale, products are rescaled with \div Scale and np.sqrt    *)
(* is the integer square root.  A Python value is a record                 *)
(* [k, n, s]: k is its type, n its number, s its characters (a str).       *)
(***************************************************************************)
EXTENDS Integers, Sequences, FiniteSets, TLC

\* ------------------------------------------------------------------ bounds

\* Fixed-point resolution: one unit is 1 / (2 * Precision).
Precision == 5
\* Longest list of values given to a stand-alone FeatureMapper.
MaxValues == 3
\* Number of FeatureBinner.fit / fit_transform calls on one instance.
MaxFits == 2

Scale == 2 * Precision

\* ------------------------------------------------------------ Python values

PyInt(i)    == [k |-> "int",   n |-> i, s |-> <<>>]
PyFloat(x)  == [k |-> "float", n |-> x, s |-> <<>>]
PyInt64(i)  == [k |-> "int64", n |-> i, s |-> <<>>]
PyStr(cs)   == [k |-> "str",   n |-> 0, s |-> cs]
PyNone      == [k |-> "None",  n |-> 0, s |-> <<>>]
PyList      == [k |-> "list",  n |-> 0, s |-> <<>>]

Digits == {"0", "1", "2", "3", "4", "5", "6", "7", "8", "9"}

DigitVal(c) ==
    CASE c = "0" -> 0 [] c = "1" -> 1 [] c = "2" -> 2 [] c = "3" -> 3
      [] c = "4" -> 4 [] c = "5" -> 5 [] c = "6" -> 6 [] c = "7" -> 7
      [] c = "8" -> 8 [] c = "9" -> 9

RECURSIVE Pow10(_)
Pow10(e) == IF e = 0 THEN 1 ELSE 10 * Pow10(e - 1)

\* The number a sequence of decimal digits writes.
RECURSIVE DigitsVal(_)
DigitsVal(cs) ==
    IF cs = <<>> THEN 0
    ELSE 10 * DigitsVal(SubSeq(cs, 1, Len(cs) - 1)) + DigitVal(cs[Len(cs)])

AllDigits(cs) == \A i \in 1..Len(cs) : cs[i] \in Digits

\* Position of the first "." of cs, 0 when there is none.
DotPos(cs) ==
    IF \E i \in 1..Len(cs) : cs[i] = "."
    THEN CHOOSE i \in 1..Len(cs) : cs[i] = "." /\ \A j \in 1..(i - 1) : cs[j] # "."
    ELSE 0

\* float(str) on an unsigned literal: digits [ "." digits ], at least one digit.
ParseUnsigned(cs) ==
    LET d    == DotPos(cs)
        ip   == IF d = 0 THEN cs ELSE SubSeq(cs, 1, d - 1)
        fp   == IF d = 0 THEN <<>> ELSE SubSeq(cs, d + 1, Len(cs))
    IN  IF AllDigits(ip) /\ AllDigits(fp) /\ Len(ip) + Len(fp) > 0
        THEN [exc |-> "", val |-> DigitsVal(ip) * Scale
                                   + (DigitsVal(fp) * Scale) \div Pow10(Len(fp))]
        ELSE [exc |-> "ValueError", val |-> 0]

\* float(str): an optional sign, then an unsigned literal; anything else
\* raises ValueError.
ParseFloat(cs) ==
    IF cs # <<>> /\ cs[1] = "-"
    THEN LET r == ParseUnsigned(Tail(cs))
         IN  [exc |-> r.exc, val |-> 0 - r.val]
    ELSE ParseUnsigned(cs)

\* float(feat_value): the fixed-point float, or the exception float() raises.
\* float(None) and float([...]) raise TypeError, not ValueError.
ToFloat(v) ==
    CASE v.k = "int"   -> [exc |-> "", val |-> v.n * Scale]
      [] v.k = "float" -> [exc |-> "", val |-> v.n]
      [] v.k = "int64" -> [exc |-> "", val |-> v.n * Scale]
      [] v.k = "str"   -> ParseFloat(v.s)
      [] OTHER         -> [exc |-> "TypeError", val |-> 0]

\* ------------------------------------------------------------ numpy helpers

RECURSIVE SumSeq(_)
SumSeq(xs) == IF xs = <<>> THEN 0 ELSE xs[1] + SumSeq(Tail(xs))

\* np.mean over a non-empty list.
Mean(xs) == SumSeq(xs) \div Len(xs)

\* Largest r with r * r <= x.
RECURSIVE IsqrtFrom(_, _)
IsqrtFrom(x, r) == IF (r + 1) * (r + 1) > x THEN r ELSE IsqrtFrom(x, r + 1)

Isqrt(x) == IsqrtFrom(x, 0)

\* np.std over a non-empty list: the population standard deviation.
Std(xs) ==
    LET m  == Mean(xs)
        sq == [i \in 1..Len(xs) |-> (xs[i] - m) * (xs[i] - m)]
    IN  Isqrt(SumSeq(sq) \div Len(xs))

\* np.searchsorted(a, v) with side="left" mutated to side="right".
RECURSIVE SearchSortedRight(_, _, _, _)
SearchSortedRight(a, v, lo, hi) ==
    IF lo >= hi THEN lo
    ELSE LET mid == lo + ((hi - lo) \div 2)
         IN  IF a[mid + 1] <= v
             THEN SearchSortedRight(a, v, mid + 1, hi)
             ELSE SearchSortedRight(a, v, lo, mid)

\* np.searchsorted(a, v), side="left": bisection on the 0-based range lo..hi.
RECURSIVE SearchSorted(_, _, _, _)
SearchSorted(a, v, lo, hi) ==
    IF lo >= hi THEN lo
    ELSE LET mid == lo + ((hi - lo) \div 2)
         IN  IF a[mid + 1] < v
             THEN SearchSorted(a, v, mid + 1, hi)
             ELSE SearchSorted(a, v, lo, mid)

\* ------------------------------------------------------------ FeatureMapper

\* ZERO = 1e-20 lies below one fixed-point unit.
ZERO == 0

\* Default constructor arguments, as fixed-point floats.
DefaultNumStd  == 2 * Scale
DefaultSizeStd == Scale \div 2

\* None for std and mean is the empty sequence, a float x is <<x>>.
NewMapper(num_std, size_std) ==
    [num_std |-> num_std, size_std |-> size_std,
     values |-> <<>>, std |-> <<>>, mean |-> <<>>, std_bins |-> <<>>]

add_value(m, value) == [m EXCEPT !.values = Append(@, value)]

\* The while loop of fit, walking down where the code walks up.
RECURSIVE FitLoopDescending(_, _, _, _, _)
FitLoopDescending(bins, range_start, num_bin, std, size_std) ==
    IF num_bin > 0 /\ std > ZERO
    THEN LET next == range_start - ((std * size_std) \div Scale)
         IN  FitLoopDescending(Append(bins, next), next, num_bin - 1, std, size_std)
    ELSE bins

\* The while loop of fit: one more boundary per bin while std > ZERO.
RECURSIVE FitLoop(_, _, _, _, _)
FitLoop(bins, range_start, num_bin, std, size_std) ==
    IF num_bin > 0 /\ std > ZERO
    THEN LET next == range_start + ((std * size_std) \div Scale)
         IN  FitLoop(Append(bins, next), next, num_bin - 1, std, size_std)
    ELSE bins

\* The while loop of fit without its std > ZERO test.
RECURSIVE FitLoopNoZeroCheck(_, _, _, _, _)
FitLoopNoZeroCheck(bins, range_start, num_bin, std, size_std) ==
    IF num_bin > 0
    THEN LET next == range_start + ((std * size_std) \div Scale)
         IN  FitLoopNoZeroCheck(Append(bins, next), next, num_bin - 1, std, size_std)
    ELSE bins

\* fit with the std > ZERO test of the loop left out.
MapperFitNoZeroCheck(m) ==
    LET std  == Std(m.values)
        mean == Mean(m.values)
        range_start == mean - ((std * m.num_std) \div Scale)
        num_bin == 2 * (m.num_std \div m.size_std)
    IN  [m EXCEPT !.std = <<std>>, !.mean = <<mean>>,
                  !.std_bins = FitLoopNoZeroCheck(<<range_start>>, range_start,
                                                  num_bin, std, m.size_std)]

\* fit with the boundaries built downwards from the range start.
MapperFitDescending(m) ==
    LET std  == Std(m.values)
        mean == Mean(m.values)
        range_start == mean - ((std * m.num_std) \div Scale)
        num_bin == 2 * (m.num_std \div m.size_std)
    IN  [m EXCEPT !.std = <<std>>, !.mean = <<mean>>,
                  !.std_bins = FitLoopDescending(<<range_start>>, range_start,
                                                 num_bin, std, m.size_std)]

\* FeatureMapper.fit
MapperFit(m) ==
    LET std  == Std(m.values)
        mean == Mean(m.values)
        range_start == mean - ((std * m.num_std) \div Scale)
        num_bin == 2 * (m.num_std \div m.size_std)
    IN  [m EXCEPT !.std = <<std>>, !.mean = <<mean>>,
                  !.std_bins = FitLoop(<<range_start>>, range_start, num_bin,
                                       std, m.size_std)]

\* map_bucket with np.searchsorted(..., side="right").
map_bucket_right(m, value) == SearchSortedRight(m.std_bins, value, 0, Len(m.std_bins))

\* FeatureMapper.map_bucket
map_bucket(m, value) == SearchSorted(m.std_bins, value, 0, Len(m.std_bins))

\* ------------------------------------------------------------ FeatureBinner

\* A token (word) is a dict in insertion order: a sequence of
\* [name, value] items with distinct names.
Item(name, value) == [name |-> name, value |-> value]

HasKey(word, name) == \E i \in 1..Len(word) : word[i].name = name

Get(word, name) == word[CHOOSE i \in 1..Len(word) : word[i].name = name].value

\* dict.update with a one-item dict {name: value}.
Update(word, name, value) ==
    IF HasKey(word, name)
    THEN [i \in 1..Len(word) |->
            IF word[i].name = name THEN Item(name, value) ELSE word[i]]
    ELSE Append(word, Item(name, value))

\* self.features.get(feat_name, FeatureMapper()) followed by
\* mapper.feat_name = feat_name
GetMapper(features, feat_name) ==
    IF feat_name \in DOMAIN features
    THEN features[feat_name]
    ELSE [feat_name |-> feat_name] @@ NewMapper(DefaultNumStd, DefaultSizeStd)

\* self.features[feat_name] = mapper
SetMapper(features, feat_name, mapper) ==
    [n \in DOMAIN features \cup {feat_name} |->
        IF n = feat_name THEN mapper ELSE features[n]]

\* The state of a running fit: the features dict and the exception that
\* left the loop ("" while it runs).
Running(features) == [features |-> features, exc |-> ""]

\* _collect_feature after float(): replaces the mapper's values instead of
\* appending to them.
CollectFloatOverwrite(features, feat_name, f) ==
    CASE f.exc = "ValueError" -> Running(features)
      [] f.exc = "TypeError"  -> [features |-> features, exc |-> "TypeError"]
      [] OTHER ->
            Running(SetMapper(features, feat_name,
                [GetMapper(features, feat_name) EXCEPT !.values = <<f.val>>]))

\* _collect_feature after f = float(feat_value): "except ValueError: return"
\* catches ValueError only, a TypeError leaves the method; otherwise the
\* float is added to the name's mapper.
CollectFloat(features, feat_name, f) ==
    CASE f.exc = "ValueError" -> Running(features)
      [] f.exc = "TypeError"  -> [features |-> features, exc |-> "TypeError"]
      [] OTHER ->
            Running(SetMapper(features, feat_name,
                add_value(GetMapper(features, feat_name), f.val)))

\* FeatureBinner._collect_feature
collect_feature(features, feat_name, feat_value) ==
    CollectFloat(features, feat_name, ToFloat(feat_value))

\* for feat_name, feat_value in word.items(): self._collect_feature(...)
RECURSIVE FitWord(_, _, _)
FitWord(st, word, i) ==
    IF i > Len(word) \/ st.exc # "" THEN st
    ELSE FitWord(collect_feature(st.features, word[i].name, word[i].value),
                 word, i + 1)

\* for word in sentence
RECURSIVE FitSentence(_, _, _)
FitSentence(st, sentence, j) ==
    IF j > Len(sentence) \/ st.exc # "" THEN st
    ELSE FitSentence(FitWord(st, sentence[j], 1), sentence, j + 1)

\* for sentence in X_train
RECURSIVE FitData(_, _, _)
FitData(st, X_train, q) ==
    IF q > Len(X_train) \/ st.exc # "" THEN st
    ELSE FitData(FitSentence(st, X_train[q], 1), X_train, q + 1)

\* for mapper in self.features.values(): mapper.fit()
\* Not reached when the collection loop raised.
FitMappers(st) ==
    IF st.exc # "" THEN st
    ELSE Running([n \in DOMAIN st.features |-> MapperFit(st.features[n])])

\* FeatureBinner.fit: collect every item, then fit every mapper.  An
\* exception leaves the values collected so far and fits nothing.
BinnerFit(features, X_train) ==
    FitMappers(FitData(Running(features), X_train, 1))

\* The result of a running transform: the output built so far and the
\* exception that left the loop ("" while it runs).
Built(out) == [out |-> out, exc |-> ""]
Raised(exc) == [out |-> <<>>, exc |-> exc]

\* _map_feature after float(): drops a numeric value whose name has no mapper.
MapFloatDrop(features, feat_name, feat_value, f) ==
    CASE f.exc = "ValueError" -> Built(<<Item(feat_name, feat_value)>>)
      [] f.exc = "TypeError"  -> Raised("TypeError")
      [] feat_name \notin DOMAIN features -> Built(<<>>)
      [] OTHER -> Built(<<Item(feat_name,
                              PyInt64(map_bucket(features[feat_name], f.val)))>>)

\* _map_feature after f = float(feat_value): the dict it returns (a
\* sequence of items).  On ValueError the value is returned as given; with
\* no mapper for the name the coerced float is returned; otherwise the
\* mapper's bucket, a numpy int64.  A TypeError leaves the method.
MapFloat(features, feat_name, feat_value, f) ==
    CASE f.exc = "ValueError" -> Built(<<Item(feat_name, feat_value)>>)
      [] f.exc = "TypeError"  -> Raised("TypeError")
      [] feat_name \notin DOMAIN features ->
            Built(<<Item(feat_name, PyFloat(f.val))>>)
      [] OTHER -> Built(<<Item(feat_name,
                              PyInt64(map_bucket(features[feat_name], f.val)))>>)

\* FeatureBinner._map_feature
map_feature(features, feat_name, feat_value) ==
    MapFloat(features, feat_name, feat_value, ToFloat(feat_value))

\* Truth value of a dict: it has an item.
Truthy(new_feats) == new_feats # <<>>

\* "if new_feats" testing the mapped value instead of the dict.
UpdateWordFalsy(new_word, r) ==
    IF r.exc # "" THEN Raised(r.exc)
    ELSE IF Truthy(r.out) /\ r.out[1].value # PyInt64(0)
         THEN Built(Update(new_word, r.out[1].name, r.out[1].value))
         ELSE Built(new_word)

\* if new_feats: new_word.update(new_feats)
\* r is what _map_feature returned or raised.
UpdateWord(new_word, r) ==
    IF r.exc # "" THEN Raised(r.exc)
    ELSE IF Truthy(r.out)
         THEN Built(Update(new_word, r.out[1].name, r.out[1].value))
         ELSE Built(new_word)

\* for feat_name, feat_value in word.items(): new_feats = self._map_feature(...)
RECURSIVE TransformWord(_, _, _, _)
TransformWord(features, word, i, st) ==
    IF i > Len(word) \/ st.exc # "" THEN st
    ELSE TransformWord(features, word, i + 1,
            UpdateWord(st.out, map_feature(features, word[i].name, word[i].value)))

\* new_sentence.append(new_word) and new_X_train.append(new_sentence)
\* r is the word or sentence built, or the exception raised while building.
AppendOut(out, r) ==
    IF r.exc # "" THEN Raised(r.exc) ELSE Built(Append(out, r.out))

\* for word in sentence: new_word = {} ... new_sentence.append(new_word)
RECURSIVE TransformSentence(_, _, _, _)
TransformSentence(features, sentence, j, st) ==
    IF j > Len(sentence) \/ st.exc # "" THEN st
    ELSE TransformSentence(features, sentence, j + 1,
            AppendOut(st.out, TransformWord(features, sentence[j], 1, Built(<<>>))))

\* for sentence in X_train: new_sentence = [] ... new_X_train.append(new_sentence)
RECURSIVE TransformData(_, _, _, _)
TransformData(features, X_train, q, st) ==
    IF q > Len(X_train) \/ st.exc # "" THEN st
    ELSE TransformData(features, X_train, q + 1,
            AppendOut(st.out, TransformSentence(features, X_train[q], 1, Built(<<>>))))

\* FeatureBinner.transform: the dataset it returns, or the exception.
BinnerTransform(features, X_train) == TransformData(features, X_train, 1, Built(<<>>))

\* fit_transform: self.fit(X_train) then return self.transform(X_train);
\* f is what fit left behind.
TransformAfterFit(f, X_train) ==
    IF f.exc # "" THEN Raised(f.exc) ELSE BinnerTransform(f.features, X_train)

\* -------------------------------------------------------------------- state

VARIABLES
    features,   \* FeatureBinner.features: feature name -> FeatureMapper
    ret,        \* the last FeatureBinner call: its name, argument, exception, result
    observed,   \* history: name -> every float collected under it by fit calls
    nFits,      \* history: number of fit / fit_transform calls made
    fitOk,      \* history: the most recent fit call returned normally
    repeat,     \* history: the last call repeated the call before it
    mapper,     \* a stand-alone FeatureMapper
    lookup,     \* the map_bucket call made on it since it last changed:
                \* <<>> or <<[value, bucket]>>
    proba       \* the last CRFTagger.predict_proba call

vars == <<features, ret, observed, nFits, fitOk, repeat, mapper, lookup, proba>>

binnerVars == <<features, ret, observed, nFits, fitOk, repeat>>
mapperVars == <<mapper, lookup>>

\* ------------------------------------------------------------------- inputs

Names == {"len", "pos"}

NN == PyStr(<<"N", "N">>)

\* Feature dicts the extractor may hand over.
Words1    == <<Item("len", PyInt(1)), Item("pos", NN)>>
Words5    == <<Item("len", PyInt(5)), Item("pos", NN)>>
Words25   == <<Item("len", PyStr(<<"2", ".", "5">>)), Item("pos", PyStr(<<"2">>))>>
WordsNN   == <<Item("len", NN)>>
WordsNone == <<Item("len", PyInt(1)), Item("pos", PyNone)>>
WordsList == <<Item("pos", PyList), Item("len", PyInt(5))>>

Words == {Words1, Words5, Words25, WordsNN, WordsNone, WordsList}

Sentences == {<<>>} \cup {<<w>> : w \in Words}

\* Training data: no sentence or one.  X_train [[w1], [w2]] is reached as
\* fit([[w1]]) followed by fit([[w2]]), which collects the same values.
FitDatasets == {<<>>} \cup {<<s>> : s \in Sentences}

\* Data to transform: up to two sentences.
Datasets == FitDatasets \cup {<<s1, s2>> : s1 \in Sentences, s2 \in Sentences}

\* Values added to the stand-alone mapper, and values looked up in it.
MapperInputs == {0, Scale, 3 * Scale}
LookupInputs == {k * Precision : k \in (0 - 4)..12}
NumStds  == {Scale, 2 * Scale}
SizeStds == {Scale \div 2, Scale}

\* ---------------------------------------------------------- history helpers

\* The items of a sentence, word after word.
RECURSIVE FlattenSentence(_)
FlattenSentence(sentence) ==
    IF sentence = <<>> THEN <<>> ELSE sentence[1] \o FlattenSentence(Tail(sentence))

\* The items of a dataset in the order fit visits them.
RECURSIVE Flatten(_)
Flatten(X) ==
    IF X = <<>> THEN <<>> ELSE FlattenSentence(X[1]) \o Flatten(Tail(X))

\* The items float() is applied to before fit stops: all of them, or those
\* before the first item on which float() raises TypeError.
Visited(X) ==
    LET items == Flatten(X)
        bad   == {i \in 1..Len(items) : ToFloat(items[i].value).exc = "TypeError"}
    IN  IF bad = {} THEN items
        ELSE SubSeq(items, 1, (CHOOSE i \in bad : \A j \in bad : i <= j) - 1)

SelectItems(items, name) ==
    SelectSeq(items, LAMBDA it : it.name = name /\ ToFloat(it.value).exc = "")

\* The floats a fit call on X collects under name, in order.
Observations(X, name) ==
    LET sel == SelectItems(Visited(X), name)
    IN  [i \in 1..Len(sel) |-> ToFloat(sel[i].value).val]

\* --------------------------------------------------------------------- Init

NoCall == [op |-> "init", X |-> <<>>, exc |-> "", out |-> <<>>]

NoProba == [examples |-> <<>>, seq |-> <<>>, marginals |-> <<>>,
            exc |-> "", out |-> <<>>]

BinnerInit ==
    /\ features = <<>>
    /\ ret = NoCall
    /\ observed = [n \in Names |-> <<>>]
    /\ nFits = 0
    /\ fitOk = TRUE
    /\ repeat = FALSE

Init ==
    /\ BinnerInit
    /\ mapper = NewMapper(DefaultNumStd, DefaultSizeStd)
    /\ lookup = <<>>
    /\ proba = NoProba

\* ------------------------------------------------------ FeatureBinner calls

Record(X, exc) ==
    /\ observed' = [n \in Names |-> observed[n] \o Observations(X, n)]
    /\ nFits' = nFits + 1
    /\ fitOk' = (exc = "")

\* FeatureBinner.fit(X)
Fit(X) ==
    /\ nFits < MaxFits
    /\ \E r \in {BinnerFit(features, X)} :
           /\ features' = r.features
           /\ ret' = [op |-> "fit", X |-> X, exc |-> r.exc, out |-> <<>>]
           /\ Record(X, r.exc)
    /\ repeat' = (ret.op = "fit" /\ ret.X = X)
    /\ UNCHANGED <<mapper, lookup, proba>>

\* transform that also collects and fits, as fit_transform does.
TransformFitting(X) ==
    /\ \E f \in {BinnerFit(features, X)} :
         \E r \in {TransformAfterFit(f, X)} :
           /\ features' = f.features
           /\ ret' = [op |-> "transform", X |-> X, exc |-> r.exc, out |-> r.out]
    /\ repeat' = (ret.op = "transform" /\ ret.X = X)
    /\ UNCHANGED <<observed, nFits, fitOk, mapper, lookup, proba>>

\* FeatureBinner.transform(X)
Transform(X) ==
    /\ \E r \in {BinnerTransform(features, X)} :
           ret' = [op |-> "transform", X |-> X, exc |-> r.exc, out |-> r.out]
    /\ repeat' = (ret.op = "transform" /\ ret.X = X)
    /\ UNCHANGED <<features, observed, nFits, fitOk, mapper, lookup, proba>>

\* FeatureBinner.fit_transform(X)
FitTransform(X) ==
    /\ nFits < MaxFits
    /\ \E f \in {BinnerFit(features, X)} :
         \E r \in {TransformAfterFit(f, X)} :
           /\ features' = f.features
           /\ ret' = [op |-> "fit_transform", X |-> X, exc |-> r.exc, out |-> r.out]
           /\ Record(X, f.exc)
    /\ repeat' = (ret.op = "fit_transform" /\ ret.X = X)
    /\ UNCHANGED <<mapper, lookup, proba>>

Next ==
    \/ \E X \in FitDatasets : Fit(X)
    \/ \E X \in Datasets : Transform(X)
    \/ \E X \in FitDatasets : FitTransform(X)

Spec == Init /\ [][Next]_vars

\* ------------------------------------------------------ FeatureMapper calls

MapperInit ==
    /\ BinnerInit
    /\ \E ns \in NumStds, ss \in SizeStds : mapper = NewMapper(ns, ss)
    /\ lookup = <<>>
    /\ proba = NoProba

MapperAddValue(v) ==
    /\ Len(mapper.values) < MaxValues
    /\ mapper' = add_value(mapper, v)
    /\ lookup' = <<>>
    /\ UNCHANGED proba
    /\ UNCHANGED binnerVars

\* np.std and np.mean of an empty list are NaN; the binner creates a mapper
\* by its first add_value, so fit is only called on a non-empty list.
MapperFitCall ==
    /\ mapper.values # <<>>
    /\ mapper' = MapperFit(mapper)
    /\ lookup' = <<>>
    /\ UNCHANGED proba
    /\ UNCHANGED binnerVars

MapBucketCall(v) ==
    /\ lookup' = <<[value |-> v, bucket |-> map_bucket(mapper, v)]>>
    /\ UNCHANGED <<mapper, proba>>
    /\ UNCHANGED binnerVars

MapperNext ==
    \/ \E v \in MapperInputs : MapperAddValue(v)
    \/ MapperFitCall
    \/ \E v \in LookupInputs : MapBucketCall(v)

MapperSpec == MapperInit /\ [][MapperNext]_vars

\* ---------------------------------------------------------------- CRFTagger

Tags  == {"O", "B"}
\* Marginal masses, in tenths; a token's masses need not sum to one.
Probs == {2, 8}

\* Feature dicts of the examples given to the tagger: no example, one
\* example of one or two tokens, two examples, an example float() rejects.
TaggerExamples ==
    { <<>>,
      << <<Words1>> >>,
      << <<Words1, Words25>> >>,
      << <<Words1>>, <<Words25>> >>,
      << <<WordsNone>> >> }

\* self._clf.predict(X): one label per token of every example.
PredictOutputs(X) ==
    {seq \in [1..Len(X) -> UNION {[1..k -> Tags] : k \in 0..2}] :
        \A q \in 1..Len(X) : Len(seq[q]) = Len(X[q])}

\* self._clf.predict_marginals(X): per token, a dict from label to mass.
MarginalOutputs(X) ==
    {m \in [1..Len(X) -> UNION {[1..k -> [Tags -> Probs]] : k \in 0..2}] :
        \A q \in 1..Len(X) : Len(m[q]) = Len(X[q])}

Max(S) == CHOOSE x \in S : \A y \in S : y <= x

\* The inner loop of predict_proba reporting the largest mass of the token.
RECURSIVE QueryTuplesMax(_, _, _, _)
QueryTuplesMax(query_seq, query_marginals, i, query_marginal_tuples) ==
    IF i > Len(query_seq) THEN query_marginal_tuples
    ELSE QueryTuplesMax(query_seq, query_marginals, i + 1,
            Append(query_marginal_tuples,
                   [tag |-> query_seq[i],
                    p |-> Max({query_marginals[i][t] : t \in Tags})]))

\* for i, tag in enumerate(query_seq):
\*     query_marginal_tuples.append([tag, marginals_dict[query_index][i][tag]])
RECURSIVE QueryTuples(_, _, _, _)
QueryTuples(query_seq, query_marginals, i, query_marginal_tuples) ==
    IF i > Len(query_seq) THEN query_marginal_tuples
    ELSE QueryTuples(query_seq, query_marginals, i + 1,
            Append(query_marginal_tuples,
                   [tag |-> query_seq[i], p |-> query_marginals[i][query_seq[i]]]))

\* for query_index, query_seq in enumerate(seq): ... marginal_tuples.append(...)
RECURSIVE MarginalTuples(_, _, _, _)
MarginalTuples(seq, marginals_dict, query_index, marginal_tuples) ==
    IF query_index > Len(seq) THEN marginal_tuples
    ELSE MarginalTuples(seq, marginals_dict, query_index + 1,
            Append(marginal_tuples,
                   QueryTuples(seq[query_index], marginals_dict[query_index], 1, <<>>)))

\* extract_features(..., fit=True): _preprocess_data fits the binner on the
\* extracted features and transforms them.
TaggerExtractFit(feats) == FitTransform(feats)

\* predict_proba: extract_features (fit=False) transforms the features with
\* the binner; the underlying model predicts labels and marginals for them.
PredictProba(feats) ==
    /\ \E t \in {BinnerTransform(features, feats)} :
         IF t.exc # ""
         THEN proba' = [examples |-> feats, seq |-> <<>>, marginals |-> <<>>,
                        exc |-> t.exc, out |-> <<>>]
         ELSE \E seq \in PredictOutputs(t.out), marginals_dict \in MarginalOutputs(t.out) :
                  proba' = [examples |-> feats, seq |-> seq,
                            marginals |-> marginals_dict, exc |-> "",
                            out |-> MarginalTuples(seq, marginals_dict, 1, <<>>)]
    /\ UNCHANGED binnerVars
    /\ UNCHANGED mapperVars

TaggerNext ==
    \/ \E feats \in TaggerExamples : TaggerExtractFit(feats)
    \/ \E feats \in TaggerExamples : PredictProba(feats)

TaggerSpec == Init /\ [][TaggerNext]_vars

\* =================================================================== claims

\* The last binner call was a transform (alone or inside fit_transform) ...
Transformed == ret.op \in {"transform", "fit_transform"}
\* ... and it returned a dataset.
Returned == Transformed /\ ret.exc = ""

\* The places <<q, j, i>> of the items of dataset X: sentence, word, item.
Places(X) ==
    UNION {UNION {{<<q, j, i>> : i \in 1..Len(X[q][j])} : j \in 1..Len(X[q])}
           : q \in 1..Len(X)}

InItem(p) == ret.X[p[1]][p[2]][p[3]]

\* The output token for the input token at place p.  A returned dataset has
\* the shape of the input (C6_TransformFrame).
OutWord(p) == ret.out[p[1]][p[2]]

Coercible(v) == ToFloat(v).exc = ""

HasMapper(name) == name \in DOMAIN features

\* A numeric item whose name has no mapper.
Unmapped(p) == Coercible(InItem(p).value) /\ ~HasMapper(InItem(p).name)

\* A numeric item whose name has a mapper.
Mapped(p) == Coercible(InItem(p).value) /\ HasMapper(InItem(p).name)

\* C1 as stated: after transform, a numeric value whose name has no mapper
\* is absent from the output token.
C1_Dropped ==
    Returned =>
        \A p \in Places(ret.X) : Unmapped(p) => ~HasKey(OutWord(p), InItem(p).name)

\* C1 amended: after transform, a numeric value whose name has no mapper is
\* in the output token under its name as the coerced float: it is neither
\* dropped nor replaced by a bucket index.
C1_PassedAsFloat ==
    Returned =>
        \A p \in Places(ret.X) :
            Unmapped(p) =>
                /\ HasKey(OutWord(p), InItem(p).name)
                /\ Get(OutWord(p), InItem(p).name)
                       = PyFloat(ToFloat(InItem(p).value).val)

\* A transform, after a fit that made a mapper for another name, of a
\* numeric string under a name that has no mapper.
C1_Witness ==
    /\ ret.op = "transform" /\ ret.exc = ""
    /\ features # <<>>
    /\ \E p \in Places(ret.X) : Unmapped(p) /\ InItem(p).value.k = "str"

\* C3 as stated: no fit, transform or fit_transform call ends in an
\* exception, whatever the feature values.
C3_NeverRaises == ret.exc = ""

\* C4 as stated: after transform every value that is not coercible to a
\* number is in the output token under its name, unmodified (so the call
\* returned), with or without a mapper for the name; and fit collected
\* nothing for it (every collected float comes from a coercible value).
C4_PassedUnchanged ==
    /\ Transformed =>
          \A p \in Places(ret.X) :
              ~Coercible(InItem(p).value) =>
                  /\ ret.exc = ""
                  /\ HasKey(OutWord(p), InItem(p).name)
                  /\ Get(OutWord(p), InItem(p).name) = InItem(p).value
    /\ \A n \in DOMAIN features : features[n].values = observed[n]

\* C5: after transform, a numeric value whose name has a mapper is in the
\* output token under its name as an integer bucket index b with
\* 0 <= b <= len(boundaries), b being the number of boundaries below the
\* value; this includes b = 0.
C5_Bucketed ==
    Returned =>
        \A p \in Places(ret.X) :
            Mapped(p) =>
                LET name == InItem(p).name
                    bins == features[name].std_bins
                    v    == ToFloat(InItem(p).value).val
                IN  /\ HasKey(OutWord(p), name)
                    /\ Get(OutWord(p), name).k = "int64"
                    /\ Get(OutWord(p), name).n \in 0..Len(bins)
                    /\ Get(OutWord(p), name).n
                           = Cardinality({b \in 1..Len(bins) : bins[b] < v})

\* A transform that maps one numeric value to bucket 0 and another to a
\* bucket above 0, by fitted mappers.
C5_Witness ==
    /\ Returned
    /\ \E p \in Places(ret.X) :
          /\ Mapped(p)
          /\ features[InItem(p).name].std # <<>>
          /\ Get(OutWord(p), InItem(p).name) = PyInt64(0)
    /\ \E p \in Places(ret.X) :
          /\ Mapped(p)
          /\ Len(features[InItem(p).name].std_bins) > 1
          /\ Get(OutWord(p), InItem(p).name).n > 0

\* The output has the shape of the input: as many sentences, as many words
\* in each, and in each word the names of the input word in their order.
SameShape(X, out) ==
    /\ Len(out) = Len(X)
    /\ \A q \in 1..Len(X) :
          /\ Len(out[q]) = Len(X[q])
          /\ \A j \in 1..Len(X[q]) :
                /\ Len(out[q][j]) = Len(X[q][j])
                /\ \A i \in 1..Len(X[q][j]) : out[q][j][i].name = X[q][j][i].name

\* C6: a transform call leaves the name-to-mapper mapping and every mapper
\* (values, mean, std, boundaries) as they were; a transform of the dataset
\* the previous transform was given ends as that one did, with the same
\* output; and a returned output has the shape of its input.
C6_TransformFrame ==
    [][ret'.op = "transform" =>
          /\ features' = features
          /\ (ret.op = "transform" /\ ret.X = ret'.X =>
                 ret'.out = ret.out /\ ret'.exc = ret.exc)
          /\ (ret'.exc = "" => SameShape(ret'.X, ret'.out))]_vars

\* The second of two transforms of one two-sentence dataset, the sentences
\* of different lengths, with a fitted mapper bucketing a value.
C6_Witness ==
    /\ ret.op = "transform" /\ ret.exc = "" /\ repeat
    /\ Len(ret.X) = 2 /\ Len(ret.X[1]) # Len(ret.X[2])
    /\ \E p \in Places(ret.X) :
          Mapped(p) /\ Get(OutWord(p), InItem(p).name).k = "int64"

\* Every mapper holds exactly the floats the fit calls collected under its
\* name, in call order.
ValuesAccumulated ==
    \A n \in DOMAIN features : features[n].values = observed[n]

\* The boundaries fit derives from a list of values with the default
\* arguments: from mean - 2 std, in steps of std / 2, 9 of them, or the
\* first alone when std is not above ZERO.
BoundariesOf(bins, values) ==
    /\ bins[1] = Mean(values) - ((Std(values) * DefaultNumStd) \div Scale)
    /\ Len(bins) = IF Std(values) > ZERO
                   THEN 1 + 2 * (DefaultNumStd \div DefaultSizeStd) ELSE 1
    /\ \A k \in 2..Len(bins) :
          bins[k] = bins[k - 1] + ((Std(values) * DefaultSizeStd) \div Scale)

\* Once a fit call has returned, every mapper's mean, std and boundaries are
\* those of its whole values list.
StatsOfAllValues ==
    fitOk =>
        \A n \in DOMAIN features :
            /\ features[n].mean = <<Mean(features[n].values)>>
            /\ features[n].std = <<Std(features[n].values)>>
            /\ Len(features[n].std_bins) > 0
            /\ BoundariesOf(features[n].std_bins, features[n].values)

NumericIn(X, name) == SelectItems(Flatten(X), name)

\* The last binner call was a fit (alone or inside fit_transform).
FitCalled == ret.op \in {"fit", "fit_transform"}

\* C11 as stated: a name is a key of the binner's mapping exactly when a
\* numeric value was observed under it in a fit call, whatever non-numeric
\* values came before it; the mapper holds the numeric observations only;
\* and after a fit call every mapper of the mapping has been fitted.
C11_KeyIffNumericObserved ==
    /\ \A n \in Names : n \in DOMAIN features <=> observed[n] # <<>>
    /\ \A n \in DOMAIN features : features[n].values = observed[n]
    /\ FitCalled =>
          /\ \A n \in Names : NumericIn(ret.X, n) # <<>> => n \in DOMAIN features
          /\ \A n \in DOMAIN features : features[n].std # <<>>

\* ------------------------------------------------- FeatureMapper claims

Fitted == mapper.std # <<>>

Ascending(bins) == \A i \in 1..(Len(bins) - 1) : bins[i] <= bins[i + 1]

C7_Monotonic ==
    Fitted =>
        /\ Ascending(mapper.std_bins)
        /\ \A v1 \in LookupInputs, v2 \in LookupInputs :
              v1 < v2 => map_bucket(mapper, v1) <= map_bucket(mapper, v2)

\* A mapper fitted on values that differ, with several distinct boundaries
\* and a lookup that fell between them.
C7_Witness ==
    /\ Fitted /\ lookup # <<>>
    /\ mapper.std[1] > ZERO
    /\ Len(mapper.std_bins) > 2
    /\ mapper.std_bins[1] < mapper.std_bins[2]
    /\ lookup[1].bucket > 0 /\ lookup[1].bucket < Len(mapper.std_bins)

\* Every collected value is the same constant.
Constant ==
    /\ mapper.values # <<>>
    /\ \A i \in 1..Len(mapper.values) : mapper.values[i] = mapper.values[1]

C9_MassOfPredictedLabel ==
    proba.exc = "" =>
        /\ Len(proba.out) = Len(proba.examples)
        /\ \A q \in 1..Len(proba.examples) :
              /\ Len(proba.out[q]) = Len(proba.examples[q])
              /\ \A i \in 1..Len(proba.examples[q]) :
                    /\ proba.out[q][i].tag = proba.seq[q][i]
                    /\ proba.out[q][i].p = proba.marginals[q][i][proba.seq[q][i]]

\* A predict_proba call on two examples, after a fit, in which the label
\* predicted for the first token does not have the largest mass.
C9_Witness ==
    /\ proba.exc = "" /\ Len(proba.examples) = 2
    /\ features # <<>>
    /\ proba.out[1][1].p < Max({proba.marginals[1][1][t] : t \in Tags})
    /\ proba.out[2][1].tag # proba.out[1][1].tag

====
